---- MODULE Spec2Model ----
(***************************************************************************)
(* Prism ray tracer (OpticsCanvas.tsx, utils/vector.ts, App.tsx).          *)
(*                                                                         *)
(* Numbers.  The program computes with IEEE doubles.  The model computes   *)
(* with fixed-point numbers: the integer a stands for the real a / ONE     *)
(* (ONE = 1000, so 0.001 is 1, 0.01 is 10, 1.5 is 1500).  A product or a   *)
(* quotient is computed exactly and rounded once to the nearest            *)
(* thousandth (half away from zero, so that rounding commutes with         *)
(* negation as it does for doubles).  The determinant of                   *)
(* intersectRaySegment is kept in millionths (1e-6 is 1) so that its       *)
(* epsilon is representable.  TLC integers are 32 bits wide and TLC stops  *)
(* on overflow; QR computes wide products without overflowing.             *)
(*                                                                         *)
(* Angles.  An angle is carried as its unit vector [c, s] = (cos, sin):    *)
(* Math.cos / Math.sin read a component, Math.atan2 normalises a vector,   *)
(* sums and differences of angles are complex products.                    *)
(***************************************************************************)
EXTENDS Integers, Sequences, FiniteSets, TLC

ONE == 1000

Abs(a) == IF a < 0 THEN -a ELSE a
Sgn(a) == IF a < 0 THEN -1 ELSE IF a > 0 THEN 1 ELSE 0

(* Bind(v, F) is F(v) with v evaluated once: "const h = v; ... h ... h".   *)
Bind(v, F(_)) == CHOOSE r \in { F(h) : h \in {v} } : TRUE

(* The largest int of the checker, and a radix K with 2 * K * c below it.  *)
MaxInt == 2147483647
Radix(c) == IF c <= 1000 THEN 1048576 ELSE IF c <= 100000 THEN 8192
            ELSE IF c <= 16000000 THEN 32 ELSE 2

(* <<q, r>> with a * b = q * c + r and 0 <= r < c, for a, b >= 0, c > 0:   *)
(* at once when a * b fits, else digit by digit of a in radix Radix(c).    *)
RECURSIVE QR(_, _, _)
QR(a, b, c) ==
  IF a = 0 \/ b = 0 THEN <<0, 0>>
  ELSE IF a <= MaxInt \div b THEN <<(a * b) \div c, (a * b) % c>>
  ELSE Bind(QR(a \div Radix(c), b, c), LAMBDA h :
         Bind(Radix(c) * h[2] + (a % Radix(c)) * (b % c), LAMBDA r :
           <<Radix(c) * h[1] + (a % Radix(c)) * (b \div c) + (r \div c), r % c>>))

(* Signed form: a * b = q * c + r with |r| < c and r carrying the sign of  *)
(* a * b (c > 0).                                                          *)
SQR(a, b, c) ==
  Bind(IF Abs(a) <= Abs(b) THEN QR(Abs(a), Abs(b), c) ELSE QR(Abs(b), Abs(a), c),
       LAMBDA h : <<Sgn(a) * Sgn(b) * h[1], Sgn(a) * Sgn(b) * h[2]>>)

(* n / c rounded to the nearest integer, half away from zero (c > 0).      *)
RoundDiv(n, c) == Sgn(n) * ((2 * Abs(n) + c) \div (2 * c))

(* (a*b + e*f) / c, rounded once; c may be negative.                       *)
SumProdDiv(a, b, e, f, c) ==
  Bind(SQR(a, b, Abs(c)), LAMBDA h1 :
    Bind(SQR(e, f, Abs(c)), LAMBDA h2 :
      Sgn(c) * (h1[1] + h2[1] + RoundDiv(h1[2] + h2[2], Abs(c)))))

(* ((a*b + e*f) / c) as a fixed-point number: the quotient of two          *)
(* quantities of the same unit, rounded once.  A quotient beyond Huge      *)
(* (two million units) is reported as Huge with its sign: the parameter of *)
(* a ray all but parallel to the segment's line, far outside both [0, 1]   *)
(* and the window.                                                         *)
Huge == 2000000000
Clip(q, r) == IF Abs(q) >= Huge \div ONE THEN Sgn(q) * Huge ELSE q * ONE + r
FixRatio(a, b, e, f, c) ==
  Bind(SQR(a, b, Abs(c)), LAMBDA h1 :
    Bind(SQR(e, f, Abs(c)), LAMBDA h2 :
      Bind(SQR(h1[2] + h2[2], ONE, Abs(c)), LAMBDA h3 :
        Sgn(c) * Clip(h1[1] + h2[1], h3[1] + RoundDiv(h3[2], Abs(c))))))

fmul(a, b) == SumProdDiv(a, b, 0, 0, ONE)          \* a * b
fdiv(a, b) == SumProdDiv(a, ONE, 0, 0, b)          \* a / b, b # 0

(* Wide naturals as <<hi, lo>> = hi * WB + lo, for sums of squares.        *)
WB == 100000
WAdd(u, v) == <<u[1] + v[1] + ((u[2] + v[2]) \div WB), (u[2] + v[2]) % WB>>
WLeq(u, v) == u[1] < v[1] \/ (u[1] = v[1] /\ u[2] <= v[2])
WMul(a, b) == QR(a, b, WB)

(* n \div x for a wide natural n and x > 0.                                *)
WDiv(n, x) == Bind(QR(n[1], WB, x), LAMBDA h : h[1] + ((h[2] + n[2]) \div x))

(* floor(sqrt(n)) for a wide natural n > 0 by Newton's iteration from an   *)
(* x >= sqrt(n).                                                           *)
RECURSIVE WRoot(_, _)
WRoot(n, x) ==
  Bind((x + WDiv(n, x)) \div 2, LAMBDA y : IF y >= x THEN x ELSE WRoot(n, y))

(* sqrt(n) rounded to nearest (up when n > m*m + m); hi >= sqrt(n).        *)
WSqrt(n, hi) ==
  IF n = <<0, 0>> THEN 0
  ELSE Bind(WRoot(n, hi), LAMBDA m : IF WLeq(n, WMul(m, m + 1)) THEN m ELSE m + 1)

(* Math.sqrt on a fixed-point number a >= 0.                               *)
sqrt(a) ==
  Bind(WMul(a, ONE), LAMBDA n :
    Bind(IF a < ONE THEN ONE ELSE IF a < 1500000 THEN a ELSE 1500000, LAMBDA hi :
      WSqrt(n, hi)))

(***************************************************************************)
(* utils/vector.ts                                                         *)
(***************************************************************************)
Vec(a, b) == [x |-> a, y |-> b]

add(v1, v2) == Vec(v1.x + v2.x, v1.y + v2.y)
sub(v1, v2) == Vec(v1.x - v2.x, v1.y - v2.y)
scale(v, s) == Vec(fmul(v.x, s), fmul(v.y, s))
dot(v1, v2) == SumProdDiv(v1.x, v2.x, v1.y, v2.y, ONE)
cross(v1, v2) == SumProdDiv(v1.x, v2.y, -v1.y, v2.x, ONE)
mag(v) ==
  Bind(WAdd(WMul(Abs(v.x), Abs(v.x)), WMul(Abs(v.y), Abs(v.y))), LAMBDA n :
    Bind(Abs(v.x) + Abs(v.y), LAMBDA hi : WSqrt(n, hi)))
normalize(v) ==
  Bind(mag(v), LAMBDA m :
    IF m = 0 THEN Vec(0, 0) ELSE Vec(fdiv(v.x, m), fdiv(v.y, m)))
rotate(v, angle) ==
  Vec(SumProdDiv(v.x, angle.c, -v.y, angle.s, ONE),
      SumProdDiv(v.x, angle.s, v.y, angle.c, ONE))
distance(p1, p2) == Bind(sub(p2, p1), LAMBDA d : mag(d))

(* The two epsilons of intersectRaySegment: 1e-6 on the determinant (in    *)
(* millionths) and 0.001 on the ray parameter (in thousandths).            *)
DenomEps == 1
TEps == 1

Null == [ok |-> FALSE]

(* The determinant and the two parameters, as the code computes them from  *)
(* v1 = rayOrigin, v2 = rayOrigin + rayDir, v3 = p1, v4 = p2.              *)
Denom(v1, v2, v3, v4) ==
  (v1.x - v2.x) * (v3.y - v4.y) - (v1.y - v2.y) * (v3.x - v4.x)
ParamT(v1, v3, v4, denom) ==
  FixRatio(v1.x - v3.x, v3.y - v4.y, -(v1.y - v3.y), v3.x - v4.x, denom)
ParamU(v1, v2, v3, denom) ==
  -FixRatio(v1.x - v2.x, v1.y - v3.y, -(v1.y - v2.y), v1.x - v3.x, denom)

(* The condition under which intersectRaySegment reports an intersection.  *)
(* AcceptsInside leaves out the two ends of the segment, for the           *)
(* sensitivity of IntersectionTest.                                        *)
AcceptsInside(t, u) == t > TEps /\ u > 0 /\ u < ONE
Accepts(t, u) == t > TEps /\ u >= 0 /\ u <= ONE

(* The normal of the segment p1 -> p2, turned against rayDir.              *)
(* SegmentNormalUnturned leaves it as computed, for the sensitivity of     *)
(* NormalsAgree.                                                           *)
SegmentNormalUnturned(rayDir, p1, p2) ==
  normalize(Vec(-(p2.y - p1.y), p2.x - p1.x))
SegmentNormal(rayDir, p1, p2) ==
  Bind(normalize(Vec(-(p2.y - p1.y), p2.x - p1.x)), LAMBDA normal :
    IF dot(rayDir, normal) > 0 THEN scale(normal, -ONE) ELSE normal)

intersectRaySegment(rayOrigin, rayDir, p1, p2) ==
  Bind(add(rayOrigin, rayDir), LAMBDA v2 :
    Bind(Denom(rayOrigin, v2, p1, p2), LAMBDA denom :
      IF Abs(denom) < DenomEps THEN Null
      ELSE Bind(ParamT(rayOrigin, p1, p2, denom), LAMBDA t :
             Bind(ParamU(rayOrigin, v2, p1, denom), LAMBDA u :
               IF Accepts(t, u)
               THEN [ok |-> TRUE,
                     point |-> Vec(rayOrigin.x + fmul(t, v2.x - rayOrigin.x),
                                   rayOrigin.y + fmul(t, v2.y - rayOrigin.y)),
                     t |-> t,
                     normal |-> SegmentNormal(rayDir, p1, p2)]
               ELSE Null))))

(***************************************************************************)
(* components/OpticsCanvas.tsx: spectrum table, prism geometry, tracer     *)
(***************************************************************************)
SPECTRUM == <<
  [color |-> "#ff0000", wlOffset |-> -30, intensity |-> 1000],
  [color |-> "#ffa500", wlOffset |-> -20, intensity |-> 900],
  [color |-> "#ffff00", wlOffset |-> -10, intensity |-> 900],
  [color |-> "#00ff00", wlOffset |-> 0,   intensity |-> 900],
  [color |-> "#00ffff", wlOffset |-> 10,  intensity |-> 900],
  [color |-> "#0000ff", wlOffset |-> 20,  intensity |-> 900],
  [color |-> "#8b00ff", wlOffset |-> 30,  intensity |-> 800] >>

(* Angles as unit vectors.                                                 *)
Ang(c0, s0) == [c |-> c0, s |-> s0]
AngAdd(a, b) ==
  Ang(SumProdDiv(a.c, b.c, -a.s, b.s, ONE), SumProdDiv(a.s, b.c, a.c, b.s, ONE))
AngSub(a, b) ==
  Ang(SumProdDiv(a.c, b.c, a.s, b.s, ONE), SumProdDiv(a.s, b.c, -a.c, b.s, ONE))
(* Math.atan2(y, x); atan2(0, 0) is 0.                                     *)
atan2(y, x) ==
  Bind(normalize(Vec(x, y)), LAMBDA n :
    IF n.x = 0 /\ n.y = 0 THEN Ang(ONE, 0) ELSE Ang(n.x, n.y))

(* -pi/2, -pi/2 + 2pi/3 and -pi/2 + 4pi/3.                                 *)
VertexOffsets == << Ang(0, -1000), Ang(866, 500), Ang(-866, 500) >>

PrismVertex(p, radius, k) ==
  Bind(AngAdd(p.rotation, VertexOffsets[k]), LAMBDA a :
    Vec(p.center.x + fmul(radius, a.c), p.center.y + fmul(radius, a.s)))

getPrismVertices(p) ==
  Bind(fdiv(p.sideLength, sqrt(3 * ONE)), LAMBDA radius :
    << PrismVertex(p, radius, 1), PrismVertex(p, radius, 2), PrismVertex(p, radius, 3) >>)

MaxDepth == 4
EscapeLength == 2000
SpawnOffset == 10

(* The guard of traceRay: depth > 4.  DepthExceededLate is the guard one   *)
(* level late, for the sensitivity of DepthBound.                          *)
DepthExceededLate(depth) == depth > MaxDepth + 1
DepthExceeded(depth) == depth > MaxDepth

(* One round of the for loop of traceRay: side i against the best so far.  *)
(* CloserHitOrEqual lets a later side win a tie, for the sensitivity of    *)
(* ClosestHitRule.                                                         *)
CloserHitOrEqual(closestHit, hit, i) ==
  IF hit.ok /\ (~closestHit.ok \/ hit.t <= closestHit.t)
  THEN [ok |-> TRUE, point |-> hit.point, t |-> hit.t,
        normal |-> hit.normal, boundaryIndex |-> i]
  ELSE closestHit
CloserHit(closestHit, hit, i) ==
  IF hit.ok /\ (~closestHit.ok \/ hit.t < closestHit.t)
  THEN [ok |-> TRUE, point |-> hit.point, t |-> hit.t,
        normal |-> hit.normal, boundaryIndex |-> i]
  ELSE closestHit

(* The for loop of traceRay over the three sides, from side i on.          *)
RECURSIVE ClosestLoop(_, _, _, _)
ClosestLoop(ray, vertices, i, closestHit) ==
  IF i >= 3 THEN closestHit
  ELSE Bind(intersectRaySegment(ray.origin, ray.direction,
                                vertices[i + 1], vertices[((i + 1) % 3) + 1]),
            LAMBDA hit :
              Bind(CloserHit(closestHit, hit, i), LAMBDA nxt :
                ClosestLoop(ray, vertices, i + 1, nxt)))

ClosestHit(ray, vertices) == ClosestLoop(ray, vertices, 0, Null)

Segment(a, b, col, w, bl) == [p1 |-> a, p2 |-> b, color |-> col, width |-> w, blur |-> bl]

(* Glass index of a ray: prismIOR + ray.wavelength; air is 1.0.            *)
GlassIndex(ior, ray) == ior + ray.wavelength
AirIndex == 1000

(* The geometric normal of side boundaryIndex, pointing out of the         *)
(* triangle (away from prism.center).                                      *)
GeoNormal(vertices, boundaryIndex, center) ==
  Bind(sub(vertices[((boundaryIndex + 1) % 3) + 1], vertices[boundaryIndex + 1]),
       LAMBDA edgeDir :
    Bind(normalize(Vec(-edgeDir.y, edgeDir.x)), LAMBDA geoNormal :
      IF dot(geoNormal, sub(center, vertices[boundaryIndex + 1])) > 0
      THEN scale(geoNormal, -ONE) ELSE geoNormal))

(* entering, n1, n2 and the normal turned to the incident medium.          *)
Media(L, geoNormal, ior, ray) ==
  Bind(dot(L, geoNormal) < 0, LAMBDA entering :
    [entering |-> entering,
     n1 |-> IF entering THEN AirIndex ELSE GlassIndex(ior, ray),
     n2 |-> IF entering THEN GlassIndex(ior, ray) ELSE AirIndex,
     orientedN |-> IF entering THEN geoNormal ELSE scale(geoNormal, -ONE)])

(* eta, c1 and cs2 of Snell's law.                                         *)
Snell(L, m) ==
  Bind(fdiv(m.n1, m.n2), LAMBDA eta :
    Bind(-dot(L, m.orientedN), LAMBDA c1 :
      [eta |-> eta, c1 |-> c1,
       cs2 |-> ONE - fmul(fmul(eta, eta), ONE - fmul(c1, c1))]))

(* The direction of the child ray, before normalisation.                   *)
NewDirection(L, m, s) ==
  IF s.cs2 < 0
  THEN sub(L, scale(m.orientedN, 2 * dot(L, m.orientedN)))
  ELSE Bind(fmul(s.eta, s.c1) - sqrt(s.cs2), LAMBDA k :
         add(scale(L, s.eta), scale(m.orientedN, k)))

ChildRay(ray, point, newDir) ==
  [origin |-> add(point, scale(newDir, SpawnOffset)),
   direction |-> normalize(newDir),
   color |-> ray.color, wavelength |-> ray.wavelength, intensity |-> ray.intensity]

(* The hit branch of traceRay.                                             *)
HitBranch(ray, depth, closestHit, vertices, center, ior) ==
  Bind(GeoNormal(vertices, closestHit.boundaryIndex, center), LAMBDA geoNormal :
    Bind(Media(ray.direction, geoNormal, ior, ray), LAMBDA m :
      Bind(Snell(ray.direction, m), LAMBDA s :
        Bind(NewDirection(ray.direction, m, s), LAMBDA newDir :
          [kind |-> IF s.cs2 < 0 THEN "reflect" ELSE "refract",
           segment |-> Segment(ray.origin, closestHit.point, ray.color,
                               IF depth = 0 THEN 3000 ELSE 1500,
                               IF depth = 0 THEN 15 ELSE 8),
           closestHit |-> closestHit,
           geoNormal |-> geoNormal, entering |-> m.entering,
           n1 |-> m.n1, n2 |-> m.n2, orientedN |-> m.orientedN,
           c1 |-> s.c1, cs2 |-> s.cs2,
           child |-> ChildRay(ray, closestHit.point, newDir)]))))

(* The no-hit branch of traceRay.  EscapeBranchUnscaled forgets the length *)
(* of the escape segment, for the sensitivity of EscapeEndsSample.         *)
EscapeBranchUnscaled(ray, depth) ==
  [kind |-> "escape",
   segment |-> Segment(ray.origin, add(ray.origin, ray.direction), ray.color,
                       IF depth = 0 THEN 3000 ELSE (IF depth = 2 THEN 2000 ELSE 6000),
                       IF depth = 0 THEN 10 ELSE 20)]
EscapeBranch(ray, depth) ==
  [kind |-> "escape",
   segment |-> Segment(ray.origin,
                       add(ray.origin, scale(ray.direction, EscapeLength * ONE)),
                       ray.color,
                       IF depth = 0 THEN 3000 ELSE (IF depth = 2 THEN 2000 ELSE 6000),
                       IF depth = 0 THEN 10 ELSE 20)]

(* One call of traceRay: what it pushes and the call it makes, if any.     *)
traceRay(ray, depth, vertices, center, ior) ==
  IF DepthExceeded(depth) THEN [kind |-> "return"]
  ELSE Bind(ClosestHit(ray, vertices), LAMBDA closestHit :
         IF closestHit.ok
         THEN HitBranch(ray, depth, closestHit, vertices, center, ior)
         ELSE EscapeBranch(ray, depth))

(***************************************************************************)
(* The component as a state machine.                                       *)
(*                                                                         *)
(* React state: prism, light (OpticsCanvas) and ior (App).                 *)
(* view is what the last render captured: the handlers and the effect of   *)
(* that render read prism, light and prismIOR from it.  pending says that  *)
(* a state update has been queued since.  The effect (the trace pass) runs *)
(* to completion once started: no handler runs while pc # "idle", and none *)
(* before the first render has mounted the canvas.                         *)
(*                                                                         *)
(* emitLog (for each pushed segment: its sample, the depth of the call     *)
(* that pushed it, hit or escape) and last (the last call of traceRay,     *)
(* with what it computed) are history variables; events counts handled     *)
(* events.                                                                 *)
(***************************************************************************)
VARIABLES prism, light, ior, interactionRef, view, pending, mounted,
          pc, sampleIdx, call, vertices, segmentsToDraw, canvas,
          emitLog, last, events

vars == <<prism, light, ior, interactionRef, view, pending, mounted,
          pc, sampleIdx, call, vertices, segmentsToDraw, canvas,
          emitLog, last, events>>

reactState == <<prism, light, ior>>
passState  == <<pc, sampleIdx, call, vertices, segmentsToDraw, canvas, emitLog, last>>

(* Bounds of the model. *)
MaxEvents == 3

(* window.innerWidth and window.innerHeight when the component mounts, in  *)
(* pixels.                                                                 *)
InnerWidth == 1600
InnerHeight == 800

(* Values the range input delivers to setIor (min 1.0, max 2.5, step 0.01; *)
(* the state starts at 1.50): the two ends of the range.                   *)
IorChoices == { 100 * 10, 250 * 10 }

(* Pointer positions (clientX, clientY), in pixels: on the light's first   *)
(* position, inside the prism 60 px below its centre, and 21 px from the   *)
(* centre.                                                                 *)
MousePoints == { <<240, 400>>, <<800, 460>>, <<785, 385>> }

Px(m) == Vec(m[1] * ONE, m[2] * ONE)

NoCall == [depth |-> -1]
NoLast == [kind |-> "none"]

Init ==
  /\ ior = 1500
  /\ prism = [center |-> Vec((InnerWidth * ONE) \div 2, (InnerHeight * ONE) \div 2),
              rotation |-> Ang(866, 500),
              sideLength |-> 250 * ONE,
              refractiveIndex |-> 1500]
  /\ light = [position |-> Vec(InnerWidth * 150, (InnerHeight * ONE) \div 2),
              angle |-> Ang(995, -100)]
  /\ interactionRef = [dragging |-> "null", lastMouse |-> Vec(0, 0)]
  /\ view = [prism |-> prism, light |-> light, prismIOR |-> ior]
  /\ pending = TRUE
  /\ mounted = FALSE
  /\ pc = "idle"
  /\ sampleIdx = 0
  /\ call = NoCall
  /\ vertices = << >>
  /\ segmentsToDraw = << >>
  /\ canvas = << >>
  /\ emitLog = << >>
  /\ last = NoLast
  /\ events = 0

(* --- handlers ---------------------------------------------------------- *)
CanHandle == mounted /\ pc = "idle" /\ events < MaxEvents

setIor(v) ==
  /\ CanHandle
  /\ v # ior
  /\ ior' = v
  /\ pending' = TRUE
  /\ events' = events + 1
  /\ UNCHANGED <<prism, light, interactionRef, view, mounted, passState>>

handleMouseDown(m) ==
  LET mouse == Px(m)
  IN  /\ CanHandle
      /\ interactionRef' =
            IF distance(mouse, view.light.position) < 20 * ONE
            THEN [dragging |-> "light", lastMouse |-> mouse]
            ELSE IF distance(mouse, view.prism.center) < 30 * ONE
            THEN [dragging |-> "prism", lastMouse |-> mouse]
            ELSE IF distance(mouse, view.prism.center) < view.prism.sideLength \div 2
            THEN [dragging |-> "rotatePrism", lastMouse |-> mouse]
            ELSE interactionRef
      /\ events' = events + 1
      /\ UNCHANGED <<reactState, view, pending, mounted, passState>>

handleMouseMove(m) ==
  LET mouse == Px(m)
      dragging == interactionRef.dragging
      lastMouse == interactionRef.lastMouse
      dx == mouse.x - lastMouse.x
      dy == mouse.y - lastMouse.y
  IN  /\ CanHandle
      /\ dragging # "null"
      /\ events' = events + 1
      /\ interactionRef' = [interactionRef EXCEPT !.lastMouse = mouse]
      /\ pending' = TRUE
      /\ UNCHANGED <<ior, view, mounted, passState>>
      /\ IF dragging = "light"
         THEN LET newPos == Vec(view.light.position.x + dx, view.light.position.y + dy)
                  angleToPrism == atan2(view.prism.center.y - newPos.y,
                                        view.prism.center.x - newPos.x)
              IN  /\ light' = [position |-> newPos, angle |-> angleToPrism]
                  /\ prism' = prism
         ELSE IF dragging = "prism"
         THEN /\ prism' = [prism EXCEPT !.center = Vec(prism.center.x + dx, prism.center.y + dy)]
              /\ light' = light
         ELSE LET ang1 == atan2(lastMouse.y - view.prism.center.y,
                                lastMouse.x - view.prism.center.x)
                  ang2 == atan2(mouse.y - view.prism.center.y,
                                mouse.x - view.prism.center.x)
                  delta == AngSub(ang2, ang1)
              IN  /\ prism' = [prism EXCEPT !.rotation = AngAdd(prism.rotation, delta)]
                  /\ light' = light

handleMouseUp ==
  /\ CanHandle
  /\ interactionRef.dragging # "null"
  /\ interactionRef' = [interactionRef EXCEPT !.dragging = "null"]
  /\ events' = events + 1
  /\ UNCHANGED <<reactState, view, pending, mounted, passState>>

(* --- render and the effect --------------------------------------------- *)
(* A render captures the current state; its effect starts the trace pass   *)
(* with a new, empty segment list.  RenderKeepsList is a render whose      *)
(* effect goes on with the list of the pass before, for the sensitivity of *)
(* FreshPass.                                                              *)
RenderKeepsList ==
  /\ pc = "idle"
  /\ pending
  /\ view' = [prism |-> prism, light |-> light, prismIOR |-> ior]
  /\ pending' = FALSE
  /\ mounted' = TRUE
  /\ vertices' = getPrismVertices(prism)
  /\ last' = NoLast
  /\ sampleIdx' = 1
  /\ call' = NoCall
  /\ pc' = "forEach"
  /\ UNCHANGED <<reactState, interactionRef, segmentsToDraw, emitLog, canvas, events>>
Render ==
  /\ pc = "idle"
  /\ pending
  /\ view' = [prism |-> prism, light |-> light, prismIOR |-> ior]
  /\ pending' = FALSE
  /\ mounted' = TRUE
  /\ vertices' = getPrismVertices(prism)
  /\ segmentsToDraw' = << >>
  /\ emitLog' = << >>
  /\ last' = NoLast
  /\ sampleIdx' = 1
  /\ call' = NoCall
  /\ pc' = "forEach"
  /\ UNCHANGED <<reactState, interactionRef, canvas, events>>

(* SPECTRUM.forEach: the call of traceRay for the next sample. *)
SpawnSample ==
  /\ pc = "forEach"
  /\ sampleIdx <= Len(SPECTRUM)
  /\ LET spec == SPECTRUM[sampleIdx]
          dir == Vec(view.light.angle.c, view.light.angle.s)
     IN  call' = [ray |-> [origin |-> view.light.position, direction |-> dir,
                           color |-> spec.color, wavelength |-> spec.wlOffset,
                           intensity |-> spec.intensity],
                  depth |-> 0]
  /\ pc' = "call"
  /\ UNCHANGED <<reactState, interactionRef, view, pending, mounted, sampleIdx, vertices,
                 segmentsToDraw, canvas, emitLog, last, events>>

(* The pending call of traceRay, evaluated. *)
Outcome == traceRay(call.ray, call.depth, vertices, view.prism.center, view.prismIOR)

Record(o) == [kind |-> o.kind, sample |-> sampleIdx, ray |-> call.ray,
              depth |-> call.depth, out |-> o]

(* traceRay returns at once: depth > 4. *)
TraceReturn ==
  /\ pc = "call"
  /\ DepthExceeded(call.depth)
  /\ last' = Record([kind |-> "return"])
  /\ call' = NoCall
  /\ sampleIdx' = sampleIdx + 1
  /\ pc' = "forEach"
  /\ UNCHANGED <<reactState, interactionRef, view, pending, mounted, vertices,
                 segmentsToDraw, canvas, emitLog, events>>

(* traceRay finds a hit: one segment, one recursive call.  For the         *)
(* sensitivity of TraceTerminates and EmissionOrder: TraceHitSameDepth     *)
(* recurses with depth instead of depth + 1, TraceHitFront puts the        *)
(* segment at the front of the list.                                       *)
TraceHitSameDepth(kind) ==
  /\ pc = "call"
  /\ \E o \in {Outcome} :
       /\ o.kind = kind
       /\ segmentsToDraw' = Append(segmentsToDraw, o.segment)
       /\ emitLog' = Append(emitLog, [sample |-> sampleIdx, depth |-> call.depth, kind |-> "hit"])
       /\ last' = Record(o)
       /\ call' = [ray |-> o.child, depth |-> call.depth]
  /\ UNCHANGED <<reactState, interactionRef, view, pending, mounted, pc, sampleIdx,
                 vertices, canvas, events>>
TraceHitFront(kind) ==
  /\ pc = "call"
  /\ \E o \in {Outcome} :
       /\ o.kind = kind
       /\ segmentsToDraw' = <<o.segment>> \o segmentsToDraw
       /\ emitLog' = <<[sample |-> sampleIdx, depth |-> call.depth, kind |-> "hit"]>> \o emitLog
       /\ last' = Record(o)
       /\ call' = [ray |-> o.child, depth |-> call.depth + 1]
  /\ UNCHANGED <<reactState, interactionRef, view, pending, mounted, pc, sampleIdx,
                 vertices, canvas, events>>
TraceHit(kind) ==
  /\ pc = "call"
  /\ \E o \in {Outcome} :
       /\ o.kind = kind
       /\ segmentsToDraw' = Append(segmentsToDraw, o.segment)
       /\ emitLog' = Append(emitLog, [sample |-> sampleIdx, depth |-> call.depth, kind |-> "hit"])
       /\ last' = Record(o)
       /\ call' = [ray |-> o.child, depth |-> call.depth + 1]
  /\ UNCHANGED <<reactState, interactionRef, view, pending, mounted, pc, sampleIdx,
                 vertices, canvas, events>>

TraceReflect == TraceHit("reflect")
TraceRefract == TraceHit("refract")

(* traceRay finds no hit: the escape segment, no recursive call. *)
TraceEscape ==
  /\ pc = "call"
  /\ \E o \in {Outcome} :
       /\ o.kind = "escape"
       /\ segmentsToDraw' = Append(segmentsToDraw, o.segment)
       /\ emitLog' = Append(emitLog, [sample |-> sampleIdx, depth |-> call.depth, kind |-> "escape"])
       /\ last' = Record(o)
  /\ call' = NoCall
  /\ sampleIdx' = sampleIdx + 1
  /\ pc' = "forEach"
  /\ UNCHANGED <<reactState, interactionRef, view, pending, mounted, vertices, canvas, events>>

(* segmentsToDraw.forEach: the finished list goes to the canvas. *)
DrawSegments ==
  /\ pc = "forEach"
  /\ sampleIdx > Len(SPECTRUM)
  /\ canvas' = segmentsToDraw
  /\ pc' = "idle"
  /\ UNCHANGED <<reactState, interactionRef, view, pending, mounted, sampleIdx, call, vertices,
                 segmentsToDraw, emitLog, last, events>>

Next ==
  \/ \E v \in IorChoices : setIor(v)
  \/ \E m \in MousePoints : handleMouseDown(m)
  \/ \E m \in MousePoints : handleMouseMove(m)
  \/ handleMouseUp
  \/ Render
  \/ SpawnSample
  \/ TraceReturn
  \/ TraceReflect
  \/ TraceRefract
  \/ TraceEscape
  \/ DrawSegments

Spec == Init /\ [][Next]_vars

(***************************************************************************)
(* intersectRaySegment on its own: a ray and three vertices drawn from     *)
(* small sets, around the thresholds of the test (t at and just above      *)
(* 0.001, u at 0 and 1, a determinant of 0 and of 1e-6), and one call per  *)
(* side.  Coordinates in thousandths.                                      *)
(***************************************************************************)
RayOrigins == { Vec(0, 0), Vec(-1, 0), Vec(0, 500) }
RayDirs == { Vec(1000, 0), Vec(-1000, 0), Vec(1, 0), Vec(600, 800), Vec(0, -1000) }
Triangles == { << Vec(1, -1000), Vec(1, 1000), Vec(2000, 0) >>,
               << Vec(5000, 0), Vec(5000, 3000), Vec(9000, -3000) >>,
               << Vec(3000, 0), Vec(5000, 1), Vec(4000, -2000) >> }

IntersectInit ==
  /\ call \in { [ray |-> [origin |-> o, direction |-> d, color |-> "#ffffff",
                          wavelength |-> 0, intensity |-> ONE],
                  depth |-> 0] : o \in RayOrigins, d \in RayDirs }
  /\ vertices \in Triangles
  /\ pc = "intersect"
  /\ last = NoLast
  /\ ior = 1500
  /\ prism = [center |-> Vec(0, 0), rotation |-> Ang(ONE, 0),
              sideLength |-> 250 * ONE, refractiveIndex |-> 1500]
  /\ light = [position |-> Vec(0, 0), angle |-> Ang(ONE, 0)]
  /\ interactionRef = [dragging |-> "null", lastMouse |-> Vec(0, 0)]
  /\ view = [prism |-> prism, light |-> light, prismIOR |-> ior]
  /\ pending = FALSE
  /\ mounted = FALSE
  /\ sampleIdx = 0
  /\ segmentsToDraw = << >>
  /\ canvas = << >>
  /\ emitLog = << >>
  /\ events = 0

(* intersectRaySegment(ray.origin, ray.direction, p1, p2) for side i.      *)
IntersectSide(i) ==
  /\ pc = "intersect"
  /\ last.kind = "none"
  /\ last' = [kind |-> "intersect", boundaryIndex |-> i,
              hit |-> intersectRaySegment(call.ray.origin, call.ray.direction,
                                          vertices[i + 1], vertices[((i + 1) % 3) + 1])]
  /\ UNCHANGED <<reactState, interactionRef, view, pending, mounted, pc, sampleIdx,
                 call, vertices, segmentsToDraw, canvas, emitLog, events>>

IntersectNext == \E i \in 0..2 : IntersectSide(i)

IntersectSpec == IntersectInit /\ [][IntersectNext]_vars

(***************************************************************************)
(* Properties                                                              *)
(***************************************************************************)
IsHit(l) == l.kind \in {"reflect", "refract"}

(* The number of segments sample s has pushed in this pass.                *)
SampleCount(s) == Cardinality({ i \in DOMAIN emitLog : emitLog[i].sample = s })

(* A measure of what is left of the pass: the samples not yet finished,    *)
(* each worth more than the calls one sample can make, less the depth of   *)
(* the pending call.                                                       *)
PassRank ==
  IF pc = "idle" THEN 0
  ELSE IF pc = "forEach"
       THEN (Len(SPECTRUM) + 1 - sampleIdx) * (MaxDepth + 3) + 1
       ELSE (Len(SPECTRUM) + 1 - sampleIdx) * (MaxDepth + 3) - call.depth

(* C1: every call of traceRay leads in finitely many steps to a call that  *)
(* returns without recursing: the depth of a pending call stays within     *)
(* 0..5 (a call at 5 returns at once), and every step of a pass strictly   *)
(* lowers a measure that never falls below 0, so a pass cannot go on for   *)
(* ever.                                                                   *)
TraceTerminates ==
  /\ [](pc = "call" => call.depth \in 0..(MaxDepth + 1))
  /\ [](PassRank >= 0)
  /\ [][pc # "idle" => PassRank' < PassRank]_vars

(* A pass has ended whose last sample ran into the depth guard.            *)
TraceTerminatesWitness ==
  pc = "idle" /\ last.kind = "return" /\ last.depth = MaxDepth + 1

(* C2: no segment is pushed by a call deeper than 4; every call at depth   *)
(* 0..4 on the way to the pending one has pushed exactly one segment, so a *)
(* sample contributes at most 5 segments and a pass at most 35.            *)
DepthBound ==
  /\ Len(segmentsToDraw) = Len(emitLog)
  /\ \A i \in DOMAIN emitLog : emitLog[i].depth \in 0..MaxDepth
  /\ pc = "call" => SampleCount(sampleIdx) = call.depth
  /\ \A s \in 1..Len(SPECTRUM) : SampleCount(s) <= MaxDepth + 1
  /\ Len(segmentsToDraw) <= Len(SPECTRUM) * (MaxDepth + 1)
  /\ Len(canvas) <= Len(SPECTRUM) * (MaxDepth + 1)

(* A sample has pushed five segments and its sixth call has returned.      *)
DepthBoundWitness ==
  /\ last.kind = "return"
  /\ SampleCount(last.sample) = MaxDepth + 1
  /\ \E i \in DOMAIN emitLog : emitLog[i].sample = last.sample /\ emitLog[i].depth = MaxDepth

(* C5: a call that finds no hit pushes one segment from the ray's origin   *)
(* to origin + 2000 * direction and makes no recursive call; a sample has  *)
(* at most one escape segment, and it is the sample's last.                *)
EscapeEndsSample ==
  /\ last.kind = "escape" =>
       /\ Len(segmentsToDraw) > 0
       /\ segmentsToDraw[Len(segmentsToDraw)].p1 = last.ray.origin
       /\ segmentsToDraw[Len(segmentsToDraw)].p2 =
            Vec(last.ray.origin.x + EscapeLength * last.ray.direction.x,
                last.ray.origin.y + EscapeLength * last.ray.direction.y)
       /\ emitLog[Len(emitLog)] =
            [sample |-> last.sample, depth |-> last.depth, kind |-> "escape"]
       /\ pc = "call" => call.depth = 0
  /\ \A i \in DOMAIN emitLog :
       emitLog[i].kind = "escape" =>
         /\ i = Len(emitLog) \/ emitLog[i + 1].sample # emitLog[i].sample
         /\ \A j \in DOMAIN emitLog :
              (emitLog[j].kind = "escape" /\ emitLog[j].sample = emitLog[i].sample) => j = i

(* A ray from the light, outside the prism and aimed past it, escapes at   *)
(* depth 0: the sample's only segment.                                     *)
EscapeEndsSampleWitness ==
  /\ last.kind = "escape"
  /\ last.depth = 0
  /\ last.ray.origin = view.light.position
  /\ SampleCount(last.sample) = 1

(* C7: the segments of a pass come sample after sample in the order of     *)
(* SPECTRUM, each sample's segments together, by depth from 0 upwards,     *)
(* each in its sample's colour.                                            *)
EmissionOrder ==
  /\ Len(segmentsToDraw) = Len(emitLog)
  /\ \A i \in DOMAIN emitLog :
       /\ emitLog[i].sample \in 1..Len(SPECTRUM)
       /\ segmentsToDraw[i].color = SPECTRUM[emitLog[i].sample].color
       /\ IF i = 1 THEN emitLog[i].sample = 1 /\ emitLog[i].depth = 0
          ELSE IF emitLog[i].sample = emitLog[i - 1].sample
          THEN emitLog[i].depth = emitLog[i - 1].depth + 1
          ELSE /\ emitLog[i].sample = emitLog[i - 1].sample + 1
               /\ emitLog[i].depth = 0
  /\ (pc = "idle" /\ mounted) =>
       /\ canvas = segmentsToDraw
       /\ \A s \in 1..Len(SPECTRUM) : SampleCount(s) >= 1

(* A finished pass in which the first and the last sample have pushed      *)
(* several segments each.                                                  *)
EmissionOrderWitness ==
  /\ pc = "idle" /\ mounted
  /\ SampleCount(1) >= 3
  /\ SampleCount(Len(SPECTRUM)) >= 3

(* The list of segments of one traceRay call and of the calls it makes.    *)
RECURSIVE TraceAll(_, _, _, _, _)
TraceAll(ray, depth, vs, center, n) ==
  Bind(traceRay(ray, depth, vs, center, n), LAMBDA o :
    IF o.kind = "return" THEN << >>
    ELSE IF o.kind = "escape" THEN << o.segment >>
    ELSE << o.segment >> \o TraceAll(o.child, depth + 1, vs, center, n))

SampleRay(v, k) ==
  [origin |-> v.light.position,
   direction |-> Vec(v.light.angle.c, v.light.angle.s),
   color |-> SPECTRUM[k].color, wavelength |-> SPECTRUM[k].wlOffset,
   intensity |-> SPECTRUM[k].intensity]

(* The output of a pass as a function of the rendered state v alone.       *)
RECURSIVE PassFrom(_, _, _)
PassFrom(v, vs, k) ==
  IF k > Len(SPECTRUM) THEN << >>
  ELSE TraceAll(SampleRay(v, k), 0, vs, v.prism.center, v.prismIOR)
         \o PassFrom(v, vs, k + 1)

PassOutput(v) == Bind(getPrismVertices(v.prism), LAMBDA vs : PassFrom(v, vs, 1))

(* C8: what a pass hands to the canvas is a function of the prism, the     *)
(* light and prismIOR of its render alone: nothing of an earlier pass is   *)
(* left in it.                                                             *)
FreshPass == [][DrawSegments => canvas' = PassOutput(view)]_vars

(* A pass has finished for a state other than the first one.               *)
FreshPassWitness ==
  /\ pc = "idle" /\ mounted
  /\ events > 0
  /\ view.prismIOR # 1500
  /\ canvas # << >>

(* The intersection of ray r with side i of the current triangle.          *)
SideHit(r, i) ==
  intersectRaySegment(r.origin, r.direction, vertices[i + 1], vertices[((i + 1) % 3) + 1])

SideHits(r) == [i \in 0..2 |-> SideHit(r, i)]

(* C3: a call that is not cut off by the depth guard takes, of the sides   *)
(* it intersects, the one with the smallest t, and of several with that t  *)
(* the one with the lowest index; it escapes exactly when it intersects    *)
(* no side.                                                                *)
ClosestHitRule ==
  (IsHit(last) \/ last.kind = "escape") =>
    LET h == SideHits(last.ray)
    IN  IF last.kind = "escape" THEN \A i \in 0..2 : ~h[i].ok
        ELSE LET c == last.out.closestHit
             IN  /\ c.boundaryIndex \in 0..2
                 /\ h[c.boundaryIndex].ok
                 /\ c.t = h[c.boundaryIndex].t
                 /\ c.point = h[c.boundaryIndex].point
                 /\ \A i \in 0..2 :
                      h[i].ok => \/ c.t < h[i].t
                                 \/ (c.t = h[i].t /\ c.boundaryIndex <= i)

(* A ray through a vertex: two sides with the same t, the lower one taken. *)
ClosestHitRuleWitness ==
  /\ IsHit(last)
  /\ LET h == SideHits(last.ray)
     IN  \E i, j \in 0..2 :
           /\ i < j /\ h[i].ok /\ h[j].ok /\ h[i].t = h[j].t
           /\ last.out.closestHit.boundaryIndex = i

(* C4: intersectRaySegment reports an intersection exactly when the        *)
(* determinant is at least 1e-6 in absolute value, t > 0.001 and           *)
(* 0 <= u <= 1, and then at origin + t * direction.                        *)
IntersectionTest ==
  last.kind = "intersect" =>
    LET v1 == call.ray.origin
        v2 == add(call.ray.origin, call.ray.direction)
        v3 == vertices[last.boundaryIndex + 1]
        v4 == vertices[((last.boundaryIndex + 1) % 3) + 1]
        denom == Denom(v1, v2, v3, v4)
    IN  /\ last.hit.ok <=> /\ Abs(denom) >= DenomEps
                           /\ ParamT(v1, v3, v4, denom) > TEps
                           /\ ParamU(v1, v2, v3, denom) >= 0
                           /\ ParamU(v1, v2, v3, denom) <= ONE
        /\ last.hit.ok =>
             /\ last.hit.t = ParamT(v1, v3, v4, denom)
             /\ last.hit.point =
                  Vec(v1.x + fmul(last.hit.t, call.ray.direction.x),
                      v1.y + fmul(last.hit.t, call.ray.direction.y))

(* An intersection at an end of the segment: u = 0 or u = 1.               *)
IntersectionTestWitness ==
  /\ last.kind = "intersect"
  /\ last.hit.ok
  /\ LET v1 == call.ray.origin
         v2 == add(call.ray.origin, call.ray.direction)
         v3 == vertices[last.boundaryIndex + 1]
         v4 == vertices[((last.boundaryIndex + 1) % 3) + 1]
     IN  ParamU(v1, v2, v3, Denom(v1, v2, v3, v4)) \in {0, ONE}

(* C6: the index used for glass is at least 1 at every interface, and the  *)
(* index used for air is exactly 1.                                        *)
GlassIndexAtLeastOne ==
  IsHit(last) =>
    IF last.out.entering
    THEN last.out.n1 = ONE /\ last.out.n2 >= ONE
    ELSE last.out.n2 = ONE /\ last.out.n1 >= ONE

(* C9: at every hit the normal turned to the incident medium is the normal *)
(* intersectRaySegment returned, and the ray runs against it: c1 >= 0.     *)
NormalsAgree ==
  IsHit(last) =>
    /\ last.out.orientedN = last.out.closestHit.normal
    /\ dot(last.ray.direction, last.out.orientedN) <= 0
    /\ last.out.c1 >= 0

(* A hit from inside the prism: the oriented normal is the geometric one   *)
(* reversed.                                                               *)
NormalsAgreeWitness ==
  /\ IsHit(last)
  /\ ~last.out.entering
  /\ last.out.orientedN = scale(last.out.geoNormal, -ONE)
  /\ last.out.orientedN = last.out.closestHit.normal
  /\ last.out.c1 > 0

(* C10: a hit that enters the prism is never totally reflected: cs2 >= 0   *)
(* and the child ray is the refracted one.                                 *)
ReflectionOnlyExiting ==
  (IsHit(last) /\ last.out.entering) => (last.out.cs2 >= 0 /\ last.kind = "refract")

(* C11: no pointer movement is lost while the light is dragged: every      *)
(* mouse-move of a light drag, whether or not a render has come since the  *)
(* move before, moves the light by the pointer's displacement, so that the *)
(* light's position less the pointer's stays what it was at mouse-down and *)
(* the position is the one at mouse-down plus the total displacement.      *)
LightFollowsPointer ==
  [][\A m \in MousePoints :
       (interactionRef.dragging = "light" /\ handleMouseMove(m)) =>
         /\ light'.position.x - Px(m).x = light.position.x - interactionRef.lastMouse.x
         /\ light'.position.y - Px(m).y = light.position.y - interactionRef.lastMouse.y]_vars

====
